---- MODULE Spec2Model ----
(***************************************************************************)
(* Model of libfancontrol (source/fancontrol.c): the fan-curve evaluator,  *)
(* the adaptive sleep-time scheduler, the controller thread's loop and the *)
(* controlling context that starts and closes the thread.                  *)
(*                                                                         *)
(* Units.  Temperatures are whole degrees Celsius.  Fan levels (floats in  *)
(* [0,1] in the source) are integers in units of 1/10000, so 0.02f is 200, *)
(* 0.05f is 500 and 0.1f is 1000; the tables and temperatures used below   *)
(* make every interpolation exact in these units.  Sleep times are whole   *)
(* seconds (the source counts nanoseconds).                                *)
(***************************************************************************)
EXTENDS Integers, Sequences, FiniteSets, TLC

VARIABLES
    fanControllerTable,          \* TemperaturePoint *fanControllerTable (NULL or 5 points)
    fanControllerThreadExit,     \* volatile bool
    systemInSleepMode,           \* volatile bool
    thermalEmergency,            \* volatile bool
    currentSleepTime,            \* static u64, seconds
    lastTemperature,             \* static float
    lastFanLevel,                \* static float
    stableReadings,              \* static u32, as two 16-bit halves [hi, lo]
    checkCounter,                \* low bit of CheckSystemSleepState's static u32 checkCounter
    temperatureC_f,              \* local of FanControllerThreadFunction
    fanLevelSet_f,               \* local of FanControllerThreadFunction
    threadPc,                    \* position of the controller thread
    mainPc,                      \* position of the controlling context
    fc,                          \* the FanController handle: "unopened", "open", "closed"
    closeCalls,                  \* number of fanControllerClose calls
    deviceLevel,                 \* level the device last accepted (NoLevel: none yet)
    readRs,                      \* result of Tmp451GetSocTemp in the latest iteration
    pushed,                      \* fanControllerSetRotationSpeedLevel in the latest iteration
    slept,                       \* argument of the latest svcSleepThread (0: none yet)
    qualRun,                     \* history: length of the current run of stable ticks
    configDir,                   \* whether CONFIG_DIR exists
    configFile,                  \* CONFIG_FILE: [exists, readable, words]
    table_out,                   \* *table_out of ReadConfigFile (NULL before the call)
    saveCalls,                   \* WriteConfigFile calls made by the latest ReadConfigFile
    savedTable,                  \* argument of the latest WriteConfigFile of the caller
    wrote,                       \* whether that WriteConfigFile reached fwrite
    cfgPc                        \* position of the caller around the configuration calls

vars == <<fanControllerTable, fanControllerThreadExit, systemInSleepMode,
          thermalEmergency, currentSleepTime, lastTemperature, lastFanLevel,
          stableReadings, checkCounter,
          temperatureC_f, fanLevelSet_f, threadPc, mainPc, fc, closeCalls,
          deviceLevel, readRs, pushed, slept, qualRun,
          configDir, configFile, table_out, saveCalls, savedTable, wrote, cfgPc>>

\* The configuration store and the caller's position around it
cfgVars == <<configDir, configFile, table_out, saveCalls, savedTable, wrote, cfgPc>>

----------------------------------------------------------------------------
(* Constants of the source *)

EMERGENCY_TEMP_THRESHOLD == 80
CRITICAL_TEMP_THRESHOLD == 90
TEMP_CHANGE_THRESHOLD == 2
STABLE_READINGS_FOR_SLOWDOWN == 10

MIN_SLEEP_INTERVAL == 1
NORMAL_SLEEP_INTERVAL == 10
LONG_SLEEP_INTERVAL == 30
SLEEP_MODE_INTERVAL == 300

\* 0.05f, 0.02f and 0.1f in units of 1/10000
FanStableDelta == 500
FanUpdateDelta == 200
SleepFanFloor == 1000

NULL == <<>>

Pt(t, f) == [temperature_c |-> t, fanLevel_f |-> f]

defaultTable ==
    << Pt(20, 1000), Pt(40, 5000), Pt(50, 6000), Pt(60, 7000), Pt(100, 10000) >>

\* number of TemperaturePoint entries, TABLE_SIZE/sizeof(TemperaturePoint)
TablePoints == 5

----------------------------------------------------------------------------
(* Bounds of the model *)

\* A run of stable readings is followed at most this far.
MaxStable == 11

\* A table a configuration file can hold besides the default: between 78 and
\* 79 degrees one degree moves the fan level by 0.1.
steepTable ==
    << Pt(20, 1000), Pt(40, 5000), Pt(78, 6000), Pt(79, 7000), Pt(100, 9100) >>

Tables == {defaultTable, steepTable}

\* Readings the sensor can return.
Temps == {21, 78, 79, 80, 90}

NoLevel == -1

----------------------------------------------------------------------------
(* u32 arithmetic on stableReadings, kept as two 16-bit halves *)

U32Half == 65536

U32(n) == [hi |-> n \div U32Half, lo |-> n % U32Half]

U32Max == [hi |-> U32Half - 1, lo |-> U32Half - 1]

\* x + 1 modulo 2^32
U32Inc(x) ==
    IF x.lo < U32Half - 1
    THEN [hi |-> x.hi, lo |-> x.lo + 1]
    ELSE [hi |-> (x.hi + 1) % U32Half, lo |-> 0]

\* x >= n, n < 2^16
U32GE(x, n) == x.hi > 0 \/ x.lo >= n

fabs(x) == IF x < 0 THEN -x ELSE x

----------------------------------------------------------------------------
(* CalculateFanLevel *)

\* ScanTable returning the lower point's level for the whole range
ScanTable_NoInterpolation(i, t) ==
    LET hit == {k \in i..(TablePoints - 2) :
                   /\ t >= fanControllerTable[k + 1].temperature_c
                   /\ t <= fanControllerTable[k + 2].temperature_c}
    IN  IF hit = {}
        THEN 0
        ELSE LET k == CHOOSE k \in hit : \A j \in hit : k <= j
             IN  fanControllerTable[k + 1].fanLevel_f

\* ScanTable adding the lower point's level to m * t, as if q were that level
ScanTable_NoOffset(i, t) ==
    LET hit == {k \in i..(TablePoints - 2) :
                   /\ t >= fanControllerTable[k + 1].temperature_c
                   /\ t <= fanControllerTable[k + 2].temperature_c}
    IN  IF hit = {}
        THEN 0
        ELSE LET k == CHOOSE k \in hit : \A j \in hit : k <= j
                 current == fanControllerTable[k + 1]
                 next == fanControllerTable[k + 2]
                 tempDiff == next.temperature_c - current.temperature_c
             IN  IF tempDiff <= 0
                 THEN current.fanLevel_f
                 ELSE current.fanLevel_f
                        + ((next.fanLevel_f - current.fanLevel_f) * t) \div tempDiff

RECURSIVE ScanTable(_, _)
ScanTable(i, t) ==
    IF i >= TablePoints - 1
    THEN 0
    ELSE LET current == fanControllerTable[i + 1]
             next == fanControllerTable[i + 2]
         IN  IF t >= current.temperature_c /\ t <= next.temperature_c
             THEN LET tempDiff == next.temperature_c - current.temperature_c
                  IN  IF tempDiff <= 0
                      THEN current.fanLevel_f
                      ELSE current.fanLevel_f
                             + ((next.fanLevel_f - current.fanLevel_f)
                                  * (t - current.temperature_c)) \div tempDiff
             ELSE ScanTable(i + 1, t)

\* CalculateFanLevel without the test for the maximum temperature
CalculateFanLevel_NoCeiling(t) ==
    IF fanControllerTable = NULL THEN 0
    ELSE IF t <= 0 THEN 0
    ELSE IF t <= fanControllerTable[1].temperature_c
         THEN (fanControllerTable[1].fanLevel_f * t)
                 \div fanControllerTable[1].temperature_c
    ELSE ScanTable(0, t)

CalculateFanLevel(t) ==
    IF fanControllerTable = NULL THEN 0
    ELSE IF t <= 0 THEN 0
    ELSE IF t <= fanControllerTable[1].temperature_c
         THEN (fanControllerTable[1].fanLevel_f * t)
                 \div fanControllerTable[1].temperature_c
    ELSE IF t >= fanControllerTable[5].temperature_c
         THEN fanControllerTable[5].fanLevel_f
    ELSE ScanTable(0, t)

----------------------------------------------------------------------------
(* CalculateAdaptiveSleepTime: the value returned and the globals it writes *)

\* The placeholder always reports the active state.
CheckSystemSleepState == FALSE

\* The stability check and the timing chosen from it (the part of
\* CalculateAdaptiveSleepTime below the sleep-mode test)
\* StabilityTiming with <= in the test for small changes
StabilityTiming_InclusiveSmallChange(currentTemp, fanLevel) ==
    LET tempChange == fabs(currentTemp - lastTemperature)
        fanChange == fabs(fanLevel - lastFanLevel)
        stable == IF tempChange < TEMP_CHANGE_THRESHOLD
                     /\ fanChange < FanStableDelta
                  THEN U32Inc(stableReadings)
                  ELSE U32(0)
    IN  [ret |-> IF U32GE(stable, STABLE_READINGS_FOR_SLOWDOWN)
                 THEN LONG_SLEEP_INTERVAL
                 ELSE IF tempChange <= TEMP_CHANGE_THRESHOLD * 2
                      THEN NORMAL_SLEEP_INTERVAL
                      ELSE NORMAL_SLEEP_INTERVAL \div 2,
         thermalEmergency |-> FALSE,
         stableReadings |-> stable]

StabilityTiming(currentTemp, fanLevel) ==
    LET tempChange == fabs(currentTemp - lastTemperature)
        fanChange == fabs(fanLevel - lastFanLevel)
        stable == IF tempChange < TEMP_CHANGE_THRESHOLD
                     /\ fanChange < FanStableDelta
                  THEN U32Inc(stableReadings)
                  ELSE U32(0)
    IN  [ret |-> IF U32GE(stable, STABLE_READINGS_FOR_SLOWDOWN)
                 THEN LONG_SLEEP_INTERVAL
                 ELSE IF tempChange < TEMP_CHANGE_THRESHOLD * 2
                      THEN NORMAL_SLEEP_INTERVAL
                      ELSE NORMAL_SLEEP_INTERVAL \div 2,
         thermalEmergency |-> FALSE,
         stableReadings |-> stable]

\* The sleep-mode test moved in front of the temperature tests.
CalculateAdaptiveSleepTime_SleepFirst(currentTemp, fanLevel, inSleepMode) ==
    IF inSleepMode
    THEN [ret |-> SLEEP_MODE_INTERVAL, thermalEmergency |-> FALSE,
          stableReadings |-> stableReadings]
    ELSE IF currentTemp >= CRITICAL_TEMP_THRESHOLD
    THEN [ret |-> MIN_SLEEP_INTERVAL, thermalEmergency |-> TRUE,
          stableReadings |-> stableReadings]
    ELSE IF currentTemp >= EMERGENCY_TEMP_THRESHOLD
    THEN [ret |-> MIN_SLEEP_INTERVAL * 2, thermalEmergency |-> TRUE,
          stableReadings |-> stableReadings]
    ELSE StabilityTiming(currentTemp, fanLevel)

\* thermalEmergency is set by the temperature tests and never cleared.
CalculateAdaptiveSleepTime_Latched(currentTemp, fanLevel, inSleepMode) ==
    IF currentTemp >= CRITICAL_TEMP_THRESHOLD
    THEN [ret |-> MIN_SLEEP_INTERVAL, thermalEmergency |-> TRUE,
          stableReadings |-> stableReadings]
    ELSE IF currentTemp >= EMERGENCY_TEMP_THRESHOLD
    THEN [ret |-> MIN_SLEEP_INTERVAL * 2, thermalEmergency |-> TRUE,
          stableReadings |-> stableReadings]
    ELSE IF inSleepMode
    THEN [ret |-> SLEEP_MODE_INTERVAL, thermalEmergency |-> thermalEmergency,
          stableReadings |-> stableReadings]
    ELSE [StabilityTiming(currentTemp, fanLevel)
             EXCEPT !.thermalEmergency = thermalEmergency]

\* inSleepMode is the value of systemInSleepMode at the call.
CalculateAdaptiveSleepTime(currentTemp, fanLevel, inSleepMode) ==
    IF currentTemp >= CRITICAL_TEMP_THRESHOLD
    THEN [ret |-> MIN_SLEEP_INTERVAL, thermalEmergency |-> TRUE,
          stableReadings |-> stableReadings]
    ELSE IF currentTemp >= EMERGENCY_TEMP_THRESHOLD
    THEN [ret |-> MIN_SLEEP_INTERVAL * 2, thermalEmergency |-> TRUE,
          stableReadings |-> stableReadings]
    ELSE IF inSleepMode
    THEN [ret |-> SLEEP_MODE_INTERVAL, thermalEmergency |-> FALSE,
          stableReadings |-> stableReadings]
    ELSE StabilityTiming(currentTemp, fanLevel)

----------------------------------------------------------------------------
(* The configuration file: the table as a flat record of 4-byte words, each *)
(* point an int temperature_c followed by a float fanLevel_f                *)

\* sizeof(defaultTable) in words: 5 points of 2 words
RecordWords == 10

NoFile == [exists |-> FALSE, readable |-> FALSE, words |-> <<>>]

\* The bytes fwrite takes from a table
Encode(table) ==
    [k \in 1..RecordWords |->
        IF k % 2 = 1 THEN table[(k + 1) \div 2].temperature_c
                     ELSE table[k \div 2].fanLevel_f]

\* Decode reading each point's two fields in the other order
Decode_FieldsSwapped(words) ==
    [i \in 1..TablePoints |-> Pt(words[2 * i], words[2 * i - 1])]

\* The table fread leaves in memory from a full record
Decode(words) ==
    [i \in 1..TablePoints |-> Pt(words[2 * i - 1], words[2 * i])]

\* WriteConfigFile(table): the store it leaves and whether fwrite was reached.
\* dirOk is the outcome of CreateDir when the directory is missing, openOk
\* that of fopen(CONFIG_FILE, "wb").
WriteConfigFile(table, dirOk, openOk) ==
    LET tableToWrite == IF table = NULL THEN defaultTable ELSE table
        dir == IF configDir THEN TRUE ELSE dirOk
        opened == dir /\ openOk
    IN  [configDir |-> dir,
         configFile |-> IF opened
                        THEN [exists |-> TRUE,
                              readable |-> IF configFile.exists
                                           THEN configFile.readable ELSE TRUE,
                              words |-> Encode(tableToWrite)]
                        ELSE configFile,
         wrote |-> opened]

\* The store and the caller once InitFanController has been given the table
CfgInited ==
    /\ configDir = TRUE
    /\ configFile = [exists |-> TRUE, readable |-> TRUE,
                     words |-> Encode(fanControllerTable)]
    /\ table_out = fanControllerTable
    /\ saveCalls = 0
    /\ savedTable = NULL
    /\ wrote = FALSE
    /\ cfgPc = "inited"

----------------------------------------------------------------------------
(* State after InitFanController(table) has created the thread *)

Init ==
    /\ fanControllerTable \in Tables
    /\ fanControllerThreadExit = FALSE
    /\ systemInSleepMode = FALSE
    /\ thermalEmergency = FALSE
    /\ currentSleepTime = LONG_SLEEP_INTERVAL
    /\ lastTemperature = 0
    /\ lastFanLevel = 0
    /\ stableReadings = U32(0)
    /\ checkCounter = 0
    /\ temperatureC_f = 0
    /\ fanLevelSet_f = 0
    /\ threadPc = "created"
    /\ mainPc = "created"
    /\ fc = "unopened"
    /\ closeCalls = 0
    /\ deviceLevel = NoLevel
    /\ readRs = "none"
    /\ pushed = "none"
    /\ slept = 0
    /\ qualRun = 0
    /\ CfgInited

\* diagAbortWithResult ends the whole process
Alive == threadPc # "aborted" /\ mainPc # "aborted"

----------------------------------------------------------------------------
(* The controlling context *)

\* StartFanControllerThread: threadStart, abort when it fails
StartFanControllerThread(startOk) ==
    /\ Alive
    /\ mainPc = "created"
    /\ IF startOk
       THEN /\ mainPc' = "started"
            /\ threadPc' = "entry"
       ELSE /\ mainPc' = "aborted"
            /\ threadPc' = threadPc
    /\ UNCHANGED cfgVars
    /\ UNCHANGED <<fanControllerTable, fanControllerThreadExit, systemInSleepMode,
                   thermalEmergency, currentSleepTime, lastTemperature,
                   lastFanLevel, stableReadings,
                   checkCounter, temperatureC_f, fanLevelSet_f, fc, closeCalls,
                   deviceLevel, readRs, pushed, slept, qualRun>>

\* CloseFanControllerThread up to the call of threadWaitForExit
CloseRequest ==
    /\ Alive
    /\ mainPc = "started"
    /\ fanControllerThreadExit' = TRUE
    /\ mainPc' = "waiting"
    /\ UNCHANGED cfgVars
    /\ UNCHANGED <<fanControllerTable, systemInSleepMode, thermalEmergency,
                   currentSleepTime, lastTemperature, lastFanLevel,
                   stableReadings, checkCounter,
                   temperatureC_f, fanLevelSet_f, threadPc, fc, closeCalls,
                   deviceLevel, readRs, pushed, slept, qualRun>>

\* CloseFanControllerThread from the return of threadWaitForExit up to
\* free(fanControllerTable): the wait succeeds only once the thread has
\* exited; a failed wait returns at once and the cleanup goes on anyway.
\* The pointer keeps the address of the freed table until CloseNull.
CloseFinish(waitOk) ==
    /\ Alive
    /\ mainPc = "waiting"
    /\ waitOk => threadPc = "stopped"
    /\ fanControllerThreadExit' = FALSE
    /\ systemInSleepMode' = FALSE
    /\ thermalEmergency' = FALSE
    /\ mainPc' = "freed"
    /\ UNCHANGED cfgVars
    /\ UNCHANGED <<fanControllerTable, currentSleepTime, lastTemperature,
                   lastFanLevel, stableReadings, checkCounter,
                   temperatureC_f, fanLevelSet_f, threadPc, fc, closeCalls,
                   deviceLevel, readRs, pushed, slept, qualRun>>

\* CloseFanControllerThread after free(fanControllerTable): the pointer is
\* set to NULL
CloseNull ==
    /\ Alive
    /\ mainPc = "freed"
    /\ fanControllerTable' = NULL
    /\ mainPc' = "closed"
    /\ UNCHANGED cfgVars
    /\ UNCHANGED <<fanControllerThreadExit, systemInSleepMode, thermalEmergency,
                   currentSleepTime, lastTemperature, lastFanLevel,
                   stableReadings, checkCounter,
                   temperatureC_f, fanLevelSet_f, threadPc, fc, closeCalls,
                   deviceLevel, readRs, pushed, slept, qualRun>>

----------------------------------------------------------------------------
(* FanControllerThreadFunction *)

\* The return after the failed open is missing: the thread goes on into the loop.
FanThreadOpen_NoReturn(openOk) ==
    /\ Alive
    /\ threadPc = "entry"
    /\ fc' = IF openOk THEN "open" ELSE fc
    /\ threadPc' = "loop"
    /\ UNCHANGED cfgVars
    /\ UNCHANGED <<fanControllerTable, fanControllerThreadExit, systemInSleepMode,
                   thermalEmergency, currentSleepTime, lastTemperature,
                   lastFanLevel, stableReadings, checkCounter, temperatureC_f,
                   fanLevelSet_f, mainPc, closeCalls, deviceLevel, readRs,
                   pushed, slept, qualRun>>

\* fanOpenController; a failure aborts
FanThreadOpen(openOk) ==
    /\ Alive
    /\ threadPc = "entry"
    /\ IF openOk
       THEN /\ fc' = "open"
            /\ threadPc' = "loop"
       ELSE /\ fc' = fc
            /\ threadPc' = "aborted"
    /\ UNCHANGED cfgVars
    /\ UNCHANGED <<fanControllerTable, fanControllerThreadExit, systemInSleepMode,
                   thermalEmergency, currentSleepTime, lastTemperature,
                   lastFanLevel, stableReadings, checkCounter, temperatureC_f,
                   fanLevelSet_f, mainPc, closeCalls, deviceLevel, readRs,
                   pushed, slept, qualRun>>

\* The failed read sleeps currentSleepTime instead of the normal interval.
LoopReadFail_SleepCurrent ==
    /\ Alive
    /\ threadPc = "loop"
    /\ ~fanControllerThreadExit
    /\ checkCounter' = (checkCounter + 1) % 2
    /\ systemInSleepMode' = CheckSystemSleepState
    /\ readRs' = "failed"
    /\ pushed' = "none"
    /\ slept' = currentSleepTime
    /\ UNCHANGED cfgVars
    /\ UNCHANGED <<fanControllerTable, fanControllerThreadExit, thermalEmergency,
                   currentSleepTime, lastTemperature, lastFanLevel,
                   stableReadings, temperatureC_f,
                   fanLevelSet_f, threadPc, mainPc, fc, closeCalls, deviceLevel,
                   qualRun>>

\* One iteration in which Tmp451GetSocTemp fails
LoopReadFail ==
    /\ Alive
    /\ threadPc = "loop"
    /\ ~fanControllerThreadExit
    /\ checkCounter' = (checkCounter + 1) % 2
    /\ systemInSleepMode' = CheckSystemSleepState
    /\ readRs' = "failed"
    /\ pushed' = "none"
    /\ slept' = NORMAL_SLEEP_INTERVAL
    /\ UNCHANGED cfgVars
    /\ UNCHANGED <<fanControllerTable, fanControllerThreadExit, thermalEmergency,
                   currentSleepTime, lastTemperature, lastFanLevel,
                   stableReadings, temperatureC_f,
                   fanLevelSet_f, threadPc, mainPc, fc, closeCalls, deviceLevel,
                   qualRun>>

\* Levels CalculateFanLevel can compute from memory already freed
FreedLevels == {10000}

\* What CalculateFanLevel(temp) returns to the loop: between free() and the
\* assignment of NULL the table it reads is freed memory, which may still
\* hold the old points or anything else.
FanLevelRead(temp) ==
    IF mainPc = "freed"
    THEN {CalculateFanLevel(temp)} \cup FreedLevels
    ELSE {CalculateFanLevel(temp)}

\* One iteration in which the sensor returns temp; setOk is the result of
\* fanControllerSetRotationSpeedLevel when it is called.
LoopTick(temp, setOk) ==
    /\ Alive
    /\ threadPc = "loop"
    /\ ~fanControllerThreadExit
    /\ \E level \in FanLevelRead(temp) :
       LET inSleepMode == CheckSystemSleepState
           shouldUpdateFan ==
               \/ thermalEmergency
               \/ fabs(level - lastFanLevel) > FanUpdateDelta
               \/ (inSleepMode /\ level > SleepFanFloor)
           sched == CalculateAdaptiveSleepTime(temp, level, inSleepMode)
           stableTick == /\ fabs(temp - lastTemperature) < TEMP_CHANGE_THRESHOLD
                         /\ fabs(level - lastFanLevel) < FanStableDelta
       IN  /\ ~U32GE(sched.stableReadings, MaxStable + 1)
           /\ checkCounter' = (checkCounter + 1) % 2
           /\ systemInSleepMode' = inSleepMode
           /\ readRs' = "ok"
           /\ temperatureC_f' = temp
           /\ fanLevelSet_f' = level
           /\ pushed' = IF ~shouldUpdateFan THEN "none"
                        ELSE IF setOk THEN "ok" ELSE "failed"
           /\ deviceLevel' = IF shouldUpdateFan /\ setOk THEN level ELSE deviceLevel
           /\ thermalEmergency' = sched.thermalEmergency
           /\ stableReadings' = sched.stableReadings
           /\ currentSleepTime' = sched.ret
           /\ lastTemperature' = temp
           /\ lastFanLevel' = level
           /\ slept' = sched.ret
           /\ qualRun' = IF ~stableTick THEN 0
                         ELSE IF qualRun < STABLE_READINGS_FOR_SLOWDOWN
                              THEN qualRun + 1
                              ELSE qualRun
    /\ UNCHANGED cfgVars
    /\ UNCHANGED <<fanControllerTable, fanControllerThreadExit, threadPc, mainPc, fc, closeCalls>>

\* The thread returns without closing the controller.
LoopExit_NoClose ==
    /\ Alive
    /\ threadPc = "loop"
    /\ fanControllerThreadExit
    /\ threadPc' = "stopped"
    /\ UNCHANGED cfgVars
    /\ UNCHANGED <<fanControllerTable, fanControllerThreadExit, systemInSleepMode,
                   thermalEmergency, currentSleepTime, lastTemperature,
                   lastFanLevel, stableReadings, checkCounter, temperatureC_f,
                   fanLevelSet_f, mainPc, fc, closeCalls,
                   deviceLevel, readRs, pushed, slept, qualRun>>

\* The exit flag is seen at the top of an iteration: cleanup and return
LoopExit ==
    /\ Alive
    /\ threadPc = "loop"
    /\ fanControllerThreadExit
    /\ fc' = "closed"
    /\ closeCalls' = closeCalls + 1
    /\ threadPc' = "stopped"
    /\ UNCHANGED cfgVars
    /\ UNCHANGED <<fanControllerTable, fanControllerThreadExit, systemInSleepMode,
                   thermalEmergency, currentSleepTime, lastTemperature,
                   lastFanLevel, stableReadings,
                   checkCounter, temperatureC_f, fanLevelSet_f, mainPc,
                   deviceLevel, readRs, pushed, slept, qualRun>>

ThreadNext ==
    \/ \E openOk \in BOOLEAN : FanThreadOpen(openOk)
    \/ LoopReadFail
    \/ \E temp \in Temps, setOk \in BOOLEAN : LoopTick(temp, setOk)
    \/ LoopExit

MainNext ==
    \/ \E startOk \in BOOLEAN : StartFanControllerThread(startOk)
    \/ CloseRequest
    \/ \E waitOk \in BOOLEAN : CloseFinish(waitOk)
    \/ CloseNull

Next == ThreadNext \/ MainNext

Spec == Init /\ [][Next]_vars

\* The thread is scheduled whenever it can run, and every sleep and
\* collaborator call returns.
FairSpec == Spec /\ WF_vars(ThreadNext)

----------------------------------------------------------------------------
(* CalculateAdaptiveSleepTime on its own: every combination of its inputs *)

\* Temperatures and fan levels handed to the scheduler, and the values of
\* stableReadings it starts from.
SchedTemps == {0, 74, 76, 78, 79, 80, 89, 90, 100}
SchedLevels == {0, 400, 500}
SchedStable == {U32(0), U32(8), U32(9), U32(10), U32Max}

InitSched ==
    /\ fanControllerTable = defaultTable
    /\ fanControllerThreadExit = FALSE
    /\ systemInSleepMode \in BOOLEAN
    /\ thermalEmergency \in BOOLEAN
    /\ currentSleepTime = LONG_SLEEP_INTERVAL
    /\ lastTemperature \in {0, 78}
    /\ lastFanLevel = 0
    /\ stableReadings \in SchedStable
    /\ checkCounter = 0
    /\ temperatureC_f = 0
    /\ fanLevelSet_f = 0
    /\ threadPc = "sched"
    /\ mainPc = "started"
    /\ fc = "open"
    /\ closeCalls = 0
    /\ deviceLevel = NoLevel
    /\ readRs = "none"
    /\ pushed = "none"
    /\ slept = 0
    /\ qualRun = 0
    /\ CfgInited

\* currentSleepTime = CalculateAdaptiveSleepTime(temperatureC_f, fanLevelSet_f)
SchedCall(currentTemp, fanLevel) ==
    /\ threadPc = "sched"
    /\ LET sched == CalculateAdaptiveSleepTime(currentTemp, fanLevel, systemInSleepMode)
       IN  /\ temperatureC_f' = currentTemp
           /\ fanLevelSet_f' = fanLevel
           /\ thermalEmergency' = sched.thermalEmergency
           /\ stableReadings' = sched.stableReadings
           /\ currentSleepTime' = sched.ret
    /\ threadPc' = "schedRet"
    /\ UNCHANGED cfgVars
    /\ UNCHANGED <<fanControllerTable, fanControllerThreadExit, systemInSleepMode,
                   lastTemperature, lastFanLevel, checkCounter, mainPc, fc,
                   closeCalls, deviceLevel, readRs, pushed, slept, qualRun>>

NextSched == \E currentTemp \in SchedTemps, fanLevel \in SchedLevels :
                 SchedCall(currentTemp, fanLevel)

SpecSched == InitSched /\ [][NextSched]_vars

----------------------------------------------------------------------------
(* The loop far into a run of stable readings: the state after 2^32 - 1 or *)
(* 2^32 iterations that each read the same temperature below the emergency *)
(* threshold.                                                              *)

InitLongRun ==
    /\ fanControllerTable \in Tables
    /\ fanControllerThreadExit = FALSE
    /\ systemInSleepMode = FALSE
    /\ thermalEmergency = FALSE
    /\ currentSleepTime = LONG_SLEEP_INTERVAL
    /\ lastTemperature \in {t \in Temps : t < EMERGENCY_TEMP_THRESHOLD}
    /\ lastFanLevel = CalculateFanLevel(lastTemperature)
    /\ stableReadings \in {[hi |-> U32Half - 1, lo |-> U32Half - 2], U32Max}
    /\ checkCounter = (stableReadings.lo + 1) % 2
    /\ temperatureC_f = lastTemperature
    /\ fanLevelSet_f = lastFanLevel
    /\ threadPc = "loop"
    /\ mainPc = "started"
    /\ fc = "open"
    /\ closeCalls = 0
    /\ deviceLevel = lastFanLevel
    /\ readRs = "ok"
    /\ pushed = "none"
    /\ slept = LONG_SLEEP_INTERVAL
    /\ qualRun = STABLE_READINGS_FOR_SLOWDOWN
    /\ CfgInited

LoopNext ==
    \/ LoopReadFail
    \/ \E temp \in Temps, setOk \in BOOLEAN : LoopTick(temp, setOk)

SpecLongRun == InitLongRun /\ [][LoopNext]_vars

----------------------------------------------------------------------------
(* Claims *)

\* A step that is one iteration of the loop
LoopStep == checkCounter' # checkCounter

\* The reading of this iteration against the stored previous one: both
\* changes below the stability thresholds
StableStep ==
    /\ fabs(temperatureC_f' - lastTemperature) < TEMP_CHANGE_THRESHOLD
    /\ fabs(fanLevelSet_f' - lastFanLevel) < FanStableDelta

\* C1: an iteration whose sensor read succeeds with a temperature at or above
\* the emergency threshold (80) calls fanControllerSetRotationSpeedLevel in
\* that same iteration, however small the change of the fan level, the first
\* iteration in the emergency range included.
C1_EmergencyTickPushes ==
    (readRs = "ok" /\ temperatureC_f >= EMERGENCY_TEMP_THRESHOLD) => pushed # "none"

\* C2: the relaxed interval (30 s) is slept only when the iteration and the 9
\* successful iterations before it were all stable (temperature change < 2.0
\* and fan-level change < 0.05 against the previous iteration), iterations
\* read during an emergency included.
C2_RelaxedNeedsTenStable ==
    slept = LONG_SLEEP_INTERVAL => qualRun >= STABLE_READINGS_FOR_SLOWDOWN

\* C3: in every iteration with a successful sensor read, whatever the
\* emergency level, stableReadings is incremented when the iteration is
\* stable and is 0 after the iteration otherwise.
C3_TrackerRunsEveryTick ==
    [][(LoopStep /\ readRs' = "ok") =>
          stableReadings' = IF StableStep THEN U32Inc(stableReadings) ELSE U32(0)]_vars

\* C4: stableReadings never wraps below the required count: once the relaxed
\* interval has been slept, every further stable iteration outside emergency
\* and sleep mode sleeps the relaxed interval again.
C4_RelaxedStaysRelaxed ==
    [][(/\ LoopStep
        /\ readRs' = "ok"
        /\ slept = LONG_SLEEP_INTERVAL
        /\ StableStep
        /\ temperatureC_f' < EMERGENCY_TEMP_THRESHOLD
        /\ ~systemInSleepMode')
          => slept' = LONG_SLEEP_INTERVAL]_vars

\* C5: after an iteration whose device write was attempted and failed, the
\* next iteration with a successful sensor read attempts the write again.
C5_FailedWriteRetried ==
    [][(LoopStep /\ pushed = "failed" /\ readRs' = "ok") => pushed' # "none"]_vars

\* C6: an iteration whose sensor read fails issues no device write, leaves
\* lastTemperature, lastFanLevel, stableReadings, currentSleepTime and
\* thermalEmergency unchanged, sleeps exactly the normal interval (10 s) and
\* stays in the loop.
C6_ReadFailureFrame ==
    [][(LoopStep /\ readRs' = "failed") =>
          /\ pushed' = "none"
          /\ deviceLevel' = deviceLevel
          /\ lastTemperature' = lastTemperature
          /\ lastFanLevel' = lastFanLevel
          /\ stableReadings' = stableReadings
          /\ currentSleepTime' = currentSleepTime
          /\ thermalEmergency' = thermalEmergency
          /\ slept' = NORMAL_SLEEP_INTERVAL
          /\ threadPc' = "loop"]_vars

\* A failed read after an emergency reading: the emergency interval stays
\* stored while the thread has slept the normal interval.
C6_Witness ==
    /\ readRs = "failed"
    /\ threadPc = "loop"
    /\ slept = NORMAL_SLEEP_INTERVAL
    /\ lastTemperature = 80
    /\ thermalEmergency
    /\ currentSleepTime = MIN_SLEEP_INTERVAL * 2

\* C7: for a reading at or above the critical threshold (90) the scheduler
\* returns the shortest interval (1 s) and sets thermalEmergency, whatever
\* stableReadings, the previous temperature and fan level and the sleep-mode
\* flag are.
C7_CriticalShortest ==
    (threadPc = "schedRet" /\ temperatureC_f >= CRITICAL_TEMP_THRESHOLD)
        => (currentSleepTime = MIN_SLEEP_INTERVAL /\ thermalEmergency)

\* A critical reading scheduled in sleep mode with a full stable count
C7_Witness ==
    /\ threadPc = "schedRet"
    /\ temperatureC_f >= CRITICAL_TEMP_THRESHOLD
    /\ systemInSleepMode
    /\ U32GE(stableReadings, STABLE_READINGS_FOR_SLOWDOWN)
    /\ currentSleepTime = MIN_SLEEP_INTERVAL

\* C8: once CloseFanControllerThread has set the exit flag, the loop thread
\* eventually sees it and reaches the stopped state, whether or not
\* threadWaitForExit reports failure.
C8_ExitRequestStops ==
    (mainPc \in {"waiting", "freed", "closed"} /\ threadPc = "loop") ~> (threadPc = "stopped")

\* C9: the controller is closed at most once, it is closed exactly when the
\* thread has left the loop, and after the close the thread reads no
\* temperature, writes no fan level and does not sleep again.
C9_ClosedOnceAfterLoop ==
    /\ [](/\ closeCalls <= 1
          /\ (closeCalls = 1) = (threadPc = "stopped")
          /\ (fc = "closed") = (closeCalls = 1)
          /\ (threadPc \in {"loop", "stopped"}) => (fc # "unopened"))
    /\ [][closeCalls >= 1 =>
            UNCHANGED <<closeCalls, fc, threadPc, checkCounter, readRs, pushed,
                        deviceLevel, slept, temperatureC_f, fanLevelSet_f,
                        lastTemperature, lastFanLevel, stableReadings,
                        currentSleepTime>>]_vars

\* The thread stopped out of an emergency, after a failed device write
C9_Witness ==
    /\ threadPc = "stopped"
    /\ closeCalls = 1
    /\ fc = "closed"
    /\ lastTemperature >= CRITICAL_TEMP_THRESHOLD
    /\ pushed = "failed"

\* C10: when fanOpenController fails the thread aborts without entering the
\* loop: while the controller has not been opened there is no sensor read,
\* no device write, no sleep, no update of the session state and no close,
\* and nothing runs after the abort.
C10_OpenFailureAborts ==
    /\ [](fc = "unopened" =>
            /\ threadPc \in {"created", "entry", "aborted"}
            /\ readRs = "none"
            /\ pushed = "none"
            /\ deviceLevel = NoLevel
            /\ slept = 0
            /\ closeCalls = 0
            /\ checkCounter = 0
            /\ lastTemperature = 0
            /\ lastFanLevel = 0
            /\ stableReadings = U32(0)
            /\ currentSleepTime = LONG_SLEEP_INTERVAL
            /\ thermalEmergency = FALSE)
    /\ [][threadPc = "aborted" => FALSE]_vars

\* The open has failed after the controlling context asked for the exit
C10_Witness ==
    /\ threadPc = "aborted"
    /\ fc = "unopened"
    /\ mainPc = "waiting"

----------------------------------------------------------------------------
(* Loading and saving the table, InitFanController, and one evaluation of  *)
(* CalculateFanLevel on the table that was loaded                          *)

\* Temperatures and fan levels of the curves handed to WriteConfigFile
CurveTemps == {-10, 0, 10, 20, 30, 40, 50}
CurveLevels == {0, 3000, 10000}

StrictlyIncreasing(table) ==
    \A i \in 1..(TablePoints - 1) : table[i].temperature_c < table[i + 1].temperature_c

NonDecreasingLevels(table) ==
    \A i \in 1..(TablePoints - 1) : table[i].fanLevel_f <= table[i + 1].fanLevel_f

\* Valid curves: strictly increasing temperatures, non-decreasing levels
CurveTempRows ==
    {ts \in [1..TablePoints -> CurveTemps] :
        \A i \in 1..(TablePoints - 1) : ts[i] < ts[i + 1]}

CurveLevelRows ==
    {fs \in [1..TablePoints -> CurveLevels] :
        \A i \in 1..(TablePoints - 1) : fs[i] <= fs[i + 1]}

Curves ==
    Tables \cup
    {[i \in 1..TablePoints |-> Pt(ts[i], fs[i])] :
        ts \in CurveTempRows, fs \in CurveLevelRows}

\* The curves the caller saves: the two tables and the curves over the five
\* lowest temperatures
SaveCurves == {c \in Curves : c \in Tables \/ c[TablePoints].temperature_c = 30}

\* Full-size records a file can hold that are no valid curve
OddTables ==
    { << Pt(20, 1000), Pt(40, 5000), Pt(40, 6000), Pt(60, 7000), Pt(100, 10000) >>,
      << Pt(20, 1000), Pt(50, 5000), Pt(40, 6000), Pt(40, 7000), Pt(100, 10000) >>,
      << Pt(50, 1000), Pt(10, 5000), Pt(20, 6000), Pt(30, 7000), Pt(100, 10000) >>,
      << Pt(0, 1000), Pt(0, 5000), Pt(0, 6000), Pt(0, 7000), Pt(100, 10000) >>,
      << Pt(20, 5000), Pt(40, 1000), Pt(50, 6000), Pt(60, 2000), Pt(100, 10000) >> }

\* Contents of CONFIG_FILE before the first call: full records, records cut
\* short, an empty file, and a record followed by more data
StoreWords ==
    {Encode(c) : c \in {defaultTable, steepTable} \cup OddTables}
    \cup {SubSeq(Encode(steepTable), 1, RecordWords - 1),
          SubSeq(Encode(steepTable), 1, 3),
          <<>>,
          Encode(steepTable) \o <<7, 7>>}

\* Temperatures CalculateFanLevel is evaluated at
EvalTemps == {-15, -10, -5, 0, 5, 10, 15, 20, 25, 30, 35, 40, 45, 50, 55, 70, 100}

\* Before ReadConfigFile: the globals hold their static initial values
InitConfig ==
    /\ fanControllerTable = NULL
    /\ fanControllerThreadExit = FALSE
    /\ systemInSleepMode = FALSE
    /\ thermalEmergency = FALSE
    /\ currentSleepTime = LONG_SLEEP_INTERVAL
    /\ lastTemperature = 0
    /\ lastFanLevel = 0
    /\ stableReadings = U32(0)
    /\ checkCounter = 0
    /\ temperatureC_f = 0
    /\ fanLevelSet_f = 0
    /\ threadPc = "none"
    /\ mainPc = "config"
    /\ fc = "unopened"
    /\ closeCalls = 0
    /\ deviceLevel = NoLevel
    /\ readRs = "none"
    /\ pushed = "none"
    /\ slept = 0
    /\ qualRun = 0
    /\ configDir \in BOOLEAN
    /\ configFile \in IF configDir
                      THEN {NoFile} \cup
                           {[exists |-> TRUE, readable |-> r, words |-> w] :
                               r \in BOOLEAN, w \in StoreWords}
                      ELSE {NoFile}
    /\ table_out = NULL
    /\ saveCalls = 0
    /\ savedTable = NULL
    /\ wrote = FALSE
    /\ cfgPc = "idle"

threadVars == <<fanControllerTable, fanControllerThreadExit, systemInSleepMode,
                thermalEmergency, currentSleepTime, lastTemperature, lastFanLevel,
                stableReadings, checkCounter, temperatureC_f, fanLevelSet_f,
                threadPc, mainPc, fc, closeCalls, deviceLevel, readRs, pushed,
                slept, qualRun>>

\* The caller saves a table: WriteConfigFile(table)
SaveConfig(table, dirOk, openOk) ==
    /\ cfgPc = "idle"
    /\ LET w == WriteConfigFile(table, dirOk, openOk)
       IN  /\ configDir' = w.configDir
           /\ configFile' = w.configFile
           /\ wrote' = w.wrote
    /\ savedTable' = table
    /\ cfgPc' = "saved"
    /\ UNCHANGED <<table_out, saveCalls>>
    /\ UNCHANGED threadVars

\* ReadConfigFile(&table): dirOk and openOk are the outcomes of CreateDir and
\* of the fopen of the WriteConfigFile it calls; fopen(CONFIG_FILE, "rb")
\* succeeds when the file is readable.
ReadConfigFile(dirOk, openOk) ==
    /\ cfgPc \in {"idle", "saved"}
    /\ IF ~configDir
       THEN LET w == WriteConfigFile(NULL, dirOk, openOk)
            IN  /\ configDir' = w.configDir
                /\ configFile' = w.configFile
                /\ table_out' = defaultTable
                /\ saveCalls' = 1
       ELSE IF ~configFile.exists
       THEN LET w == WriteConfigFile(NULL, dirOk, openOk)
            IN  /\ configDir' = w.configDir
                /\ configFile' = w.configFile
                /\ table_out' = defaultTable
                /\ saveCalls' = 1
       ELSE /\ table_out' = IF configFile.readable
                               /\ Len(configFile.words) >= RecordWords
                            THEN Decode(SubSeq(configFile.words, 1, RecordWords))
                            ELSE defaultTable
            /\ saveCalls' = 0
            /\ UNCHANGED <<configDir, configFile>>
    /\ cfgPc' = "loaded"
    /\ UNCHANGED <<savedTable, wrote>>
    /\ UNCHANGED threadVars

\* InitFanController(table) with the table ReadConfigFile returned
InitFanController ==
    /\ cfgPc = "loaded"
    /\ table_out # NULL
    /\ fanControllerTable' = table_out
    /\ fanControllerThreadExit' = FALSE
    /\ systemInSleepMode' = FALSE
    /\ thermalEmergency' = FALSE
    /\ currentSleepTime' = LONG_SLEEP_INTERVAL
    /\ lastTemperature' = 0
    /\ lastFanLevel' = 0
    /\ stableReadings' = U32(0)
    /\ threadPc' = "created"
    /\ mainPc' = "created"
    /\ cfgPc' = "inited"
    /\ UNCHANGED <<checkCounter, temperatureC_f, fanLevelSet_f, fc, closeCalls,
                   deviceLevel, readRs, pushed, slept, qualRun>>
    /\ UNCHANGED <<configDir, configFile, table_out, saveCalls, savedTable, wrote>>

\* fanLevelSet_f = CalculateFanLevel(temperatureC_f), on its own
EvalCall(t) ==
    /\ cfgPc = "inited"
    /\ threadPc = "created"
    /\ temperatureC_f' = t
    /\ fanLevelSet_f' = CalculateFanLevel(t)
    /\ threadPc' = "evalRet"
    /\ UNCHANGED cfgVars
    /\ UNCHANGED <<fanControllerTable, fanControllerThreadExit, systemInSleepMode,
                   thermalEmergency, currentSleepTime, lastTemperature,
                   lastFanLevel, stableReadings, checkCounter, mainPc, fc,
                   closeCalls, deviceLevel, readRs, pushed, slept, qualRun>>

NextConfig ==
    \/ \E table \in SaveCurves, dirOk \in BOOLEAN, openOk \in BOOLEAN :
          SaveConfig(table, dirOk, openOk)
    \/ \E dirOk \in BOOLEAN, openOk \in BOOLEAN : ReadConfigFile(dirOk, openOk)
    \/ InitFanController
    \/ \E t \in EvalTemps : EvalCall(t)

SpecConfig == InitConfig /\ [][NextConfig]_vars

----------------------------------------------------------------------------
(* CalculateFanLevel on its own, over every valid curve *)

\* InitFanController(table) has been given a valid curve
InitCurve ==
    /\ fanControllerTable \in Curves
    /\ fanControllerThreadExit = FALSE
    /\ systemInSleepMode = FALSE
    /\ thermalEmergency = FALSE
    /\ currentSleepTime = LONG_SLEEP_INTERVAL
    /\ lastTemperature = 0
    /\ lastFanLevel = 0
    /\ stableReadings = U32(0)
    /\ checkCounter = 0
    /\ temperatureC_f = 0
    /\ fanLevelSet_f = 0
    /\ threadPc = "created"
    /\ mainPc = "created"
    /\ fc = "unopened"
    /\ closeCalls = 0
    /\ deviceLevel = NoLevel
    /\ readRs = "none"
    /\ pushed = "none"
    /\ slept = 0
    /\ qualRun = 0
    /\ CfgInited

NextCurve == \E t \in EvalTemps : EvalCall(t)

SpecCurve == InitCurve /\ [][NextCurve]_vars

----------------------------------------------------------------------------
(* Claims about the configuration store, checked under SpecConfig *)

\* The step in which ReadConfigFile returns
LoadStep == cfgPc # "loaded" /\ cfgPc' = "loaded"

\* C11: ReadConfigFile on a store that is missing, unreadable, or holds data
\* shorter or longer than the 5-point record returns the default table and
\* calls WriteConfigFile(default) exactly once.
C11_BadStoreDefaultsAndSaves ==
    [][(/\ LoadStep
        /\ \/ ~configDir
           \/ ~configFile.exists
           \/ ~configFile.readable
           \/ Len(configFile.words) # RecordWords)
       => (table_out' = defaultTable /\ saveCalls' = 1)]_vars

\* C12: when WriteConfigFile(curve) has written a valid curve and the file can
\* be opened for reading, the ReadConfigFile that follows returns a table
\* equal point for point to the one saved and calls WriteConfigFile no more.
C12_SaveLoadRoundTrip ==
    [][(/\ LoadStep
        /\ cfgPc = "saved"
        /\ wrote
        /\ configFile.readable
        /\ StrictlyIncreasing(savedTable))
       => (/\ table_out' = savedTable
           /\ \A i \in 1..TablePoints :
                 /\ table_out'[i].temperature_c = savedTable[i].temperature_c
                 /\ table_out'[i].fanLevel_f = savedTable[i].fanLevel_f
           /\ saveCalls' = 0
           /\ UNCHANGED <<configDir, configFile>>)]_vars

C12_Witness ==
    /\ cfgPc = "loaded"
    /\ wrote
    /\ configFile.readable
    /\ savedTable = steepTable
    /\ table_out = steepTable
    /\ saveCalls = 0

\* C18: the table CalculateFanLevel evaluates has strictly increasing
\* temperatures, whatever full-size record ReadConfigFile took it from.
C18_LoadedCurveIncreasing ==
    (cfgPc = "inited" /\ threadPc = "evalRet")
        => StrictlyIncreasing(fanControllerTable)

----------------------------------------------------------------------------
(* Claims about CalculateFanLevel, checked under SpecCurve *)

\* CalculateFanLevel has returned for a curve with strictly increasing
\* temperatures
Evaluated == threadPc = "evalRet" /\ StrictlyIncreasing(fanControllerTable)

C14_EveryBreakpointExact ==
    Evaluated =>
        \A i \in 1..TablePoints :
            fanControllerTable[i].temperature_c = temperatureC_f
                => fanLevelSet_f = fanControllerTable[i].fanLevel_f

\* C14 amended: for a curve with strictly increasing temperatures,
\* CalculateFanLevel at the temperature of a control point returns that
\* point's level when the temperature is above 0, and 0 when it is not.
C14_PositiveBreakpointExact ==
    Evaluated =>
        \A i \in 1..TablePoints :
            fanControllerTable[i].temperature_c = temperatureC_f
                => fanLevelSet_f = IF temperatureC_f > 0
                                   THEN fanControllerTable[i].fanLevel_f
                                   ELSE 0

C14_Witness ==
    /\ Evaluated
    /\ fanControllerTable = defaultTable
    /\ temperatureC_f = defaultTable[2].temperature_c
    /\ fanLevelSet_f = defaultTable[2].fanLevel_f

\* C15: with the default table CalculateFanLevel(20) is 0.1,
\* CalculateFanLevel(40) is 0.5 and CalculateFanLevel(70) is 0.775.
C15_DefaultCurveValues ==
    (threadPc = "evalRet" /\ fanControllerTable = defaultTable)
    => /\ temperatureC_f = 20 => fanLevelSet_f = 1000
       /\ temperatureC_f = 40 => fanLevelSet_f = 5000
       /\ temperatureC_f = 70 => fanLevelSet_f = 7750

C15_Witness ==
    /\ threadPc = "evalRet"
    /\ fanControllerTable = defaultTable
    /\ temperatureC_f = 70
    /\ fanLevelSet_f = 7750

----------------------------------------------------------------------------
(* Claims about CalculateAdaptiveSleepTime as a whole, checked under SpecSched *)

\* C16: CalculateAdaptiveSleepTime returns 1 s for a critical temperature,
\* else 2 s for an emergency temperature (in sleep mode too), else 300 s in
\* sleep mode (with a stable count of 10 or more too), else 30 s with a
\* stable count of 10 or more after the call, else 10 s for a change from
\* lastTemperature below 4, else 5 s, and no other value.
C16_DecisionOrder ==
    LET ladder ==
            IF temperatureC_f >= CRITICAL_TEMP_THRESHOLD THEN 1
            ELSE IF temperatureC_f >= EMERGENCY_TEMP_THRESHOLD THEN 2
            ELSE IF systemInSleepMode THEN 300
            ELSE IF U32GE(stableReadings, 10) THEN 30
            ELSE IF fabs(temperatureC_f - lastTemperature) < 4 THEN 10
            ELSE 5
    IN  threadPc = "schedRet"
            => /\ currentSleepTime = ladder
               /\ currentSleepTime \in {1, 2, 5, 10, 30, 300}

\* An emergency temperature scheduled in sleep mode
C16_Witness ==
    /\ threadPc = "schedRet"
    /\ temperatureC_f >= EMERGENCY_TEMP_THRESHOLD
    /\ temperatureC_f < CRITICAL_TEMP_THRESHOLD
    /\ systemInSleepMode
    /\ U32GE(stableReadings, STABLE_READINGS_FOR_SLOWDOWN)
    /\ currentSleepTime = 2

----------------------------------------------------------------------------
(* Claims about the running loop, checked under Spec *)

\* C17: CloseFanControllerThread resets thermalEmergency and systemInSleepMode
\* and frees the table only once the loop thread has stopped, also when
\* threadWaitForExit fails, and no iteration of the loop computes a fan level
\* from a freed or NULL table.
C17_CleanupAfterLoopStopped ==
    [][/\ (mainPc = "waiting" /\ mainPc' = "freed") => threadPc = "stopped"
       /\ (LoopStep /\ readRs' = "ok")
             => (mainPc # "freed" /\ fanControllerTable # NULL)]_vars

\* C19: an iteration whose read succeeds ends with thermalEmergency true
\* exactly when the stored lastTemperature, the reading just taken, is at or
\* above EMERGENCY_TEMP_THRESHOLD, whatever the flag was before; an iteration
\* whose read fails changes neither the flag nor lastTemperature.
C19_EmergencyFollowsLastReading ==
    [][LoopStep =>
         IF readRs' = "ok"
         THEN /\ lastTemperature' = temperatureC_f'
              /\ thermalEmergency' = (lastTemperature' >= EMERGENCY_TEMP_THRESHOLD)
         ELSE UNCHANGED <<thermalEmergency, lastTemperature>>]_vars

\* A reading of 79 right after a reading of 80: the flag is clear again, and
\* the level was written only because the flag was still set at the test
C19_Witness ==
    /\ readRs = "ok"
    /\ fanControllerTable = defaultTable
    /\ lastTemperature = 79
    /\ ~thermalEmergency
    /\ pushed = "ok"
    /\ stableReadings = U32(1)

----------------------------------------------------------------------------
(* The loop under a slow drift: every device write succeeds *)

\* Readings one degree apart on the 40..50 range of the default table, where
\* one degree is worth 0.01 of fan level
DriftTemps == {41, 42, 43, 44}

\* The thread has opened the controller and enters the loop
InitDrift ==
    /\ fanControllerTable \in Tables
    /\ fanControllerThreadExit = FALSE
    /\ systemInSleepMode = FALSE
    /\ thermalEmergency = FALSE
    /\ currentSleepTime = LONG_SLEEP_INTERVAL
    /\ lastTemperature = 0
    /\ lastFanLevel = 0
    /\ stableReadings = U32(0)
    /\ checkCounter = 0
    /\ temperatureC_f = 0
    /\ fanLevelSet_f = 0
    /\ threadPc = "loop"
    /\ mainPc = "started"
    /\ fc = "open"
    /\ closeCalls = 0
    /\ deviceLevel = NoLevel
    /\ readRs = "none"
    /\ pushed = "none"
    /\ slept = 0
    /\ qualRun = 0
    /\ CfgInited

NextDrift ==
    \/ LoopReadFail
    \/ \E temp \in DriftTemps : LoopTick(temp, TRUE)

SpecDrift == InitDrift /\ [][NextDrift]_vars

\* C20: with every device write succeeding and the system not in sleep mode,
\* after an iteration whose read succeeds the level last written to the
\* device differs from the level computed in that iteration by at most 0.02.
C20_AppliedTracksEvaluated ==
    (readRs = "ok" /\ ~systemInSleepMode /\ pushed # "failed")
        => /\ deviceLevel # NoLevel
           /\ fabs(deviceLevel - fanLevelSet_f) <= FanUpdateDelta

====
